---------------------------- MODULE Spec2Model ----------------------------
(***************************************************************************)
(* A model of stickyprint's printer discovery and print pipeline.          *)
(*                                                                         *)
(*   SpecDiscovery  one run of PrinterDiscovery.discover_printers: the     *)
(*                  ippfind subprocess under its timeout, then the         *)
(*                  semaphore-bounded TCP sweep (src/src/discovery.py).    *)
(*   FairDiscovery  the same run with the event loop's progress stated as  *)
(*                  weak fairness, for termination.                        *)
(*   Spec           the service facade (src/src/ha_integration.py): start- *)
(*                  up, then concurrent rediscover, configure-manual and   *)
(*                  get-status requests.                                   *)
(*   SpecPrint      start-up, then concurrent print-*, configure-manual    *)
(*                  and get-status requests (src/src/printer.py).          *)
(*   SpecNotify     start-up, then concurrent notifications, each          *)
(*                  dispatched by handle_notification to a print-*         *)
(*                  operation.                                             *)
(*   SpecFacade     start-up, then concurrent requests of every kind.      *)
(*   SpecHttp       start-up, then concurrent print requests through the   *)
(*                  HTTP handlers (src/src/main.py).                       *)
(*   SpecRender     one call of a StickyNoteRenderer function              *)
(*                  (src/src/image_processor.py) on an input drawn from    *)
(*                  bounded sets.                                          *)
(***************************************************************************)
EXTENDS Integers, Sequences, FiniteSets, TLC

(***************************************************************************)
(* Bounds of the model.                                                    *)
(***************************************************************************)
\* Host addresses enumerated by the sweep (network.hosts() over all networks).
NumHosts == 3
\* Permits of the sweep's semaphore.  The source creates asyncio.Semaphore(100)
\* (discovery.py:93); the model scales the cap down and keeps it below NumHosts
\* so that probes have to wait for a permit.
ScanPermits == 2
\* Lines of ippfind output.
MaxLines == 2
\* Requests the HTTP server handles, each in a task of its own.
NumRequests == 2
\* Words of a text handed to the wrapper.
MaxWords == 3
\* Events of one day's calendar.
MaxEvents == 2
\* Characters that fit between the margins of the 576-pixel print width.
LineChars == 40

\* The characters of a payload the QR fallback text keeps.
QrFallbackChars == 50

(***************************************************************************)
(* Data: URIs and IPPPrinter records.                                      *)
(***************************************************************************)
\* dataclass IPPPrinter
IPPPrinter(uri, hostname, port, path) ==
    [uri |-> uri, hostname |-> hostname, port |-> port, path |-> path]

\* Python's None where an Optional[IPPPrinter] is held (falsy: "not printer").
None == [uri |-> "", hostname |-> "", port |-> 0, path |-> ""]

Hosts == 1..NumHosts

\* str(ip) of the i-th host address the sweep enumerates.
HostIp(i) == "10.0.0." \o ToString(i)

\* Lines ippfind may print, each as its tokens in order: an ipp:// URI of one
\* of two advertised devices, an ipps:// URI, an empty line, a line that is
\* no URI.
AdvertisedLines ==
    { <<"ipp", "://", "printerA.local", ":", "631", "/ipp/print">>,
      <<"ipp", "://", "printerB.local", ":", "8631", "/ipp/alt">>,
      <<"ipps", "://", "printerA.local", ":", "631", "/ipp/print">>,
      <<>>,
      <<"junk">> }

\* The text of a line: its tokens concatenated.
RECURSIVE LineText(_)
LineText(line) ==
    IF line = <<>> THEN "" ELSE Head(line) \o LineText(Tail(line))

\* int(match.group(2)) for the port texts that occur.
IntOf(digits) ==
    CASE digits = "631" -> 631
      [] digits = "8631" -> 8631

RECURSIVE SeqsUpTo(_, _)
SeqsUpTo(S, n) ==
    IF n = 0 THEN { <<>> }
    ELSE LET shorter == SeqsUpTo(S, n - 1)
         IN  shorter \cup { Append(s, x) : s \in { q \in shorter : Len(q) = n - 1 }, x \in S }

\* stdout of an ippfind run: up to MaxLines lines.
IppfindOutputs == SeqsUpTo(AdvertisedLines, MaxLines)

\* Mutant of MatchesIppPattern: any scheme matches.
MatchesAnyScheme(line) ==
    /\ Len(line) = 6
    /\ line[2] = "://" /\ line[4] = ":"

\* re.match(r'ipp://([^:]+):(\d+)(/.*)', line)
MatchesIppPattern(line) ==
    /\ Len(line) = 6
    /\ line[1] = "ipp" /\ line[2] = "://" /\ line[4] = ":"

\* PrinterDiscovery._parse_ippfind_output
RECURSIVE parse_ippfind_output(_)
parse_ippfind_output(output) ==
    IF output = <<>> THEN <<>>
    ELSE LET line == Head(output)
             rest == parse_ippfind_output(Tail(output))
         IN  IF line = <<>> THEN rest
             ELSE IF MatchesIppPattern(line)
                  THEN <<IPPPrinter(LineText(line), line[3], IntOf(line[5]), line[6])>> \o rest
                  ELSE rest

\* The IPPPrinter _check_ipp_service builds after a successful connect.
ScannedPrinter(ip) ==
    IPPPrinter("ipp://" \o ip \o ":631/ipp/print", ip, 631, "/ipp/print")

\* Mutant of create_manual_printer: the given port and path are dropped for
\* the defaults.
create_manual_printer_defaults(ip_address, port, path) ==
    IPPPrinter("ipp://" \o ip_address \o ":631/ipp/print", ip_address, 631, "/ipp/print")

\* PrinterDiscovery.create_manual_printer
create_manual_printer(ip_address, port, path) ==
    IPPPrinter("ipp://" \o ip_address \o ":" \o ToString(port) \o path,
               ip_address, port, path)

\* Mutant of find_sticky_note_printer: the last printer of the list.
find_last_printer(list) ==
    IF list = <<>> THEN None ELSE list[Len(list)]

\* discovery.py:222-234: the first printer of the discovery list, or None.
find_sticky_note_printer(list) ==
    IF list = <<>> THEN None ELSE list[1]

(***************************************************************************)
(* State of one discover_printers run.                                     *)
(***************************************************************************)
VARIABLES
    dpc,          \* position of discover_printers / _discover_with_ippfind
    ippProc,      \* the ippfind subprocess: none, running, exited, killed, reaped
    ippRc,        \* its return code once exited
    ippOutput,    \* its stdout once exited
    ippPrinters,  \* what _discover_with_ippfind returned
    ippWhy,       \* the path on which _discover_with_ippfind returned
    sweepStarted, \* _discover_with_network_scan has been called
    nHosts,       \* number of host addresses the sweep enumerated
    hpc,          \* per probe task: unused, waiting, connecting, closing, done
    hout,         \* per probe task: what the network did
    hret,         \* per probe task: the value _check_ipp_service returned
    sem,          \* value of the sweep's semaphore
    firstDone,    \* the probe task that was done first (0: none yet)
    printers,     \* what discover_printers returned
    selected      \* what find_sticky_note_printer returned

discVars == <<dpc, ippProc, ippRc, ippOutput, ippPrinters, ippWhy, sweepStarted,
              nHosts, hpc, hout, hret, sem, firstDone, printers, selected>>

(***************************************************************************)
(* State of the service (StickyPrintService and its StickyNotePrinter).    *)
(***************************************************************************)
VARIABLES
    printer,      \* StickyNotePrinter.printer: the current endpoint or None
    config,       \* StickyPrintService.config, the keys the facade uses
    task,         \* per task: the operation it runs, where it is, its locals
    settled       \* URI set by the last configure-manual that returned true
                  \* with no other discovery/configuration operation since

svcVars == <<printer, config, task, settled>>

(***************************************************************************)
(* The files of StickyNotePrinter (src/src/printer.py:16-17).              *)
(***************************************************************************)
VARIABLES
    temp_dir,         \* the files of self.temp_dir: for "<job_name>.bmp" and
                      \* "<job_name>.png" the task whose image the file holds
    last_image_path   \* the job name of self.last_image_path ("" for None)

fileVars == <<temp_dir, last_image_path>>

(***************************************************************************)
(* State of one call of a StickyNoteRenderer function.                     *)
(***************************************************************************)
VARIABLES
    rpc,          \* off, input (the call is to be made), done
    rin,          \* the arguments of the call
    rout          \* what the call returned

renderVars == <<rpc, rin, rout>>

\* What a discovery step leaves alone, and what a service step leaves alone.
outerVars == <<svcVars, fileVars, renderVars>>
envVars == <<discVars, fileVars, renderVars>>
\* What a print step leaves alone.
offVars == <<discVars, renderVars>>

vars == <<discVars, svcVars, fileVars, renderVars>>

\* Outcomes of asyncio.open_connection under wait_for(timeout=1.0).
ConnectOutcomes == {"open", "refused", "timeout", "oserror", "exception"}

DiscInit ==
    /\ dpc = "start"
    /\ ippProc = "none"
    /\ ippRc = 0
    /\ ippOutput = <<>>
    /\ ippPrinters = <<>>
    /\ ippWhy = "pending"
    /\ sweepStarted = FALSE
    /\ nHosts = 0
    /\ hpc = [h \in Hosts |-> "unused"]
    /\ hout = [h \in Hosts |-> "pending"]
    /\ hret = [h \in Hosts |-> None]
    /\ sem = 0
    /\ firstDone = 0
    /\ printers = <<>>
    /\ selected = None

sweepVars == <<sweepStarted, nHosts, hpc, hout, hret, sem, firstDone, printers, selected>>

\* _discover_with_ippfind returns `found` on path `why`; its locals (stdout,
\* the return code read from the process) are gone.
IppfindReturns(found, why) ==
    /\ ippPrinters' = found
    /\ ippWhy' = why
    /\ ippRc' = 0
    /\ ippOutput' = <<>>
    /\ dpc' = "after_ippfind"

\* discovery.py:49-53, 76-81: create_subprocess_exec('ippfind'); the tool may be
\* missing (FileNotFoundError) or the spawn may fail otherwise.
IppfindSpawn ==
    /\ dpc = "start"
    /\ \/ /\ ippProc' = "running"
          /\ dpc' = "ippfind_wait"
          /\ UNCHANGED <<ippPrinters, ippWhy, ippRc, ippOutput>>
       \/ /\ IppfindReturns(<<>>, "missing")
          /\ UNCHANGED ippProc
       \/ /\ IppfindReturns(<<>>, "error")
          /\ UNCHANGED ippProc
    /\ UNCHANGED <<sweepVars, outerVars>>

\* The ippfind process exits by itself with a return code and its output.
IppfindExits ==
    /\ dpc = "ippfind_wait"
    /\ ippProc = "running"
    /\ \E rc \in {0, 1}, out \in IppfindOutputs :
          /\ ippRc' = rc
          /\ ippOutput' = out
    /\ ippProc' = "exited"
    /\ UNCHANGED <<dpc, ippPrinters, ippWhy, sweepVars, outerVars>>

\* discovery.py:57-60, 67-74: communicate() returns within the timeout.
IppfindCommunicated ==
    /\ dpc = "ippfind_wait"
    /\ ippProc = "exited"
    /\ IF ippRc # 0
       THEN IppfindReturns(<<>>, "nonzero")
       ELSE LET found == parse_ippfind_output(ippOutput)
            IN  IppfindReturns(found, IF found = <<>> THEN "nomatch" ELSE "ok")
    /\ ippProc' = "reaped"
    /\ UNCHANGED <<sweepVars, outerVars>>

\* Mutant of OnTimeout: the handler returns [] without kill() and wait().
OnTimeoutNoKill(proc) == [proc |-> proc, pc |-> "after_ippfind"]

\* discovery.py:61-65: what the TimeoutError handler does to a process in state
\* proc and where the coroutine is afterwards.  A running process is killed and
\* then awaited; when the process has exited in the meantime kill() finds no
\* process and line 79 catches what it raises.
OnTimeout(proc) ==
    IF proc = "running"
    THEN [proc |-> "killed", pc |-> "ippfind_reap"]
    ELSE [proc |-> "reaped", pc |-> "after_ippfind"]

\* discovery.py:61-62: wait_for raises TimeoutError at the configured timeout.
IppfindTimeout ==
    /\ dpc = "ippfind_wait"
    /\ ippProc \in {"running", "exited"}
    /\ LET t == OnTimeout(ippProc)
       IN  /\ ippProc' = t.proc
           /\ IF t.pc = "after_ippfind"
              THEN IppfindReturns(<<>>, "timeout")
              ELSE /\ dpc' = t.pc
                   /\ UNCHANGED <<ippPrinters, ippWhy, ippRc, ippOutput>>
    /\ UNCHANGED <<sweepVars, outerVars>>

\* discovery.py:63-65: await process.wait() returns once the killed process is
\* gone; return [].
IppfindReaped ==
    /\ dpc = "ippfind_reap"
    /\ ippProc = "killed"
    /\ ippProc' = "reaped"
    /\ IppfindReturns(<<>>, "timeout")
    /\ UNCHANGED <<sweepVars, outerVars>>

(***************************************************************************)
(* discover_printers and the network sweep.                                *)
(***************************************************************************)
\* Mutant of NeedsSweep: the sweep runs whatever ippfind returned.
NeedsSweepAlways(found) == TRUE

\* discovery.py:38: "if not printers".
NeedsSweep(found) == found = <<>>

\* Mutant of CanAcquire: probes start without waiting for a permit.
CanAcquireAlways(value) == TRUE

\* asyncio.Semaphore.acquire returns without waiting only while the value is
\* positive (discovery.py:164, "async with semaphore").
CanAcquire(value) == value > 0

\* Mutant of ReleaseAfter: the timeout path leaves without releasing.
ReleaseUnlessTimeout(value, outcome) ==
    IF outcome = "timeout" THEN value ELSE value + 1

\* Leaving the "async with semaphore" block releases the permit, whatever the
\* probe's outcome was (discovery.py:164-191).
ReleaseAfter(value, outcome) == value + 1

\* discovery.py:165-191: the value _check_ipp_service returns for a probe of
\* `ip` whose try block ended as `outcome`.
check_ipp_service(ip, outcome) ==
    IF outcome = "open" THEN ScannedPrinter(ip) ELSE None

\* Mutant of CollectPrinters: the first failed probe ends the collection.
RECURSIVE CollectUntilFailure(_)
CollectUntilFailure(results) ==
    IF results = <<>> THEN <<>>
    ELSE IF Head(results) # None
         THEN <<Head(results)>> \o CollectUntilFailure(Tail(results))
         ELSE <<>>

\* discovery.py:106-110: keep the IPPPrinter results, in the order of the tasks.
RECURSIVE CollectPrinters(_)
CollectPrinters(results) ==
    IF results = <<>> THEN <<>>
    ELSE IF Head(results) # None
         THEN <<Head(results)>> \o CollectPrinters(Tail(results))
         ELSE CollectPrinters(Tail(results))

\* discovery.py:36-43 and 85-103: discover_printers looks at what ippfind gave;
\* if nothing, _discover_with_network_scan creates the semaphore and one probe
\* task per host address of the local networks, and awaits them all.
DiscoverDecide ==
    /\ dpc = "after_ippfind"
    /\ IF NeedsSweep(ippPrinters)
       THEN \E n \in 0..NumHosts :
               /\ nHosts' = n
               /\ hpc' = [h \in Hosts |-> IF h <= n THEN "waiting" ELSE "unused"]
               /\ sem' = ScanPermits
               /\ sweepStarted' = TRUE
               /\ dpc' = "scan"
               /\ UNCHANGED <<hout, hret, firstDone, printers, selected>>
       ELSE /\ printers' = ippPrinters
            /\ selected' = find_sticky_note_printer(ippPrinters)
            /\ dpc' = "done"
            /\ UNCHANGED <<sweepStarted, nHosts, hpc, hout, hret, sem, firstDone>>
    /\ UNCHANGED <<ippProc, ippRc, ippOutput, ippPrinters, ippWhy, outerVars>>

ippVars == <<ippProc, ippRc, ippOutput, ippPrinters, ippWhy>>

\* discovery.py:164: a probe task enters "async with semaphore" and starts
\* open_connection(ip, 631).
ProbeAcquire(h) ==
    /\ dpc = "scan"
    /\ hpc[h] = "waiting"
    /\ CanAcquire(sem)
    /\ sem' = sem - 1
    /\ hpc' = [hpc EXCEPT ![h] = "connecting"]
    /\ UNCHANGED <<dpc, ippVars, sweepStarted, nHosts, hout, hret, firstDone, printers,
                   selected, outerVars>>

\* The probe of h leaves its try block as `outcome`, returns and releases.
ProbeReturns(h, outcome) ==
    /\ hout' = [hout EXCEPT ![h] = outcome]
    /\ hret' = [hret EXCEPT ![h] = check_ipp_service(HostIp(h), outcome)]
    /\ sem' = ReleaseAfter(sem, outcome)
    /\ hpc' = [hpc EXCEPT ![h] = "done"]
    /\ firstDone' = IF firstDone = 0 THEN h ELSE firstDone

\* discovery.py:167-170, 186-191: the connection attempt ends, at the latest
\* by its 1.0 s timeout.
ProbeConnect(h) ==
    /\ dpc = "scan"
    /\ hpc[h] = "connecting"
    /\ \E outcome \in ConnectOutcomes :
          IF outcome = "open"
          THEN /\ hpc' = [hpc EXCEPT ![h] = "closing"]
               /\ UNCHANGED <<hout, hret, sem, firstDone>>
          ELSE ProbeReturns(h, outcome)
    /\ UNCHANGED <<dpc, ippVars, sweepStarted, nHosts, printers, selected, outerVars>>

\* discovery.py:172-184: writer.close(); await writer.wait_closed(), which may
\* raise (the peer reset the connection); otherwise the printer is returned.
ProbeClose(h) ==
    /\ dpc = "scan"
    /\ hpc[h] = "closing"
    /\ \E outcome \in {"open", "close_raised"} : ProbeReturns(h, outcome)
    /\ UNCHANGED <<dpc, ippVars, sweepStarted, nHosts, printers, selected, outerVars>>

\* discovery.py:103-113, 222-234: gather returns when every task is done; the
\* results are in task order; find_sticky_note_printer selects from the list.
SweepGathered ==
    /\ dpc = "scan"
    /\ \A h \in Hosts : hpc[h] \in {"unused", "done"}
    /\ printers' = CollectPrinters([h \in 1..nHosts |-> hret[h]])
    /\ selected' = find_sticky_note_printer(printers')
    /\ dpc' = "done"
    /\ UNCHANGED <<ippVars, sweepStarted, nHosts, hpc, hout, hret, sem, firstDone, outerVars>>

DiscNext ==
    \/ IppfindSpawn
    \/ IppfindExits
    \/ IppfindCommunicated
    \/ IppfindTimeout
    \/ IppfindReaped
    \/ DiscoverDecide
    \/ \E h \in Hosts : ProbeAcquire(h)
    \/ \E h \in Hosts : ProbeConnect(h)
    \/ \E h \in Hosts : ProbeClose(h)
    \/ SweepGathered

(***************************************************************************)
(* The service facade: StickyPrintService over StickyNotePrinter.          *)
(*                                                                         *)
(* Task 0 runs initialize() before the server accepts requests             *)
(* (main.py:1127-1131); every request runs one facade operation in a task  *)
(* of its own, and tasks interleave at their awaits.                       *)
(***************************************************************************)
Tasks == 0..NumRequests
Requests == 1..NumRequests

\* (printer_ip, port, path) of the configure-manual requests that arrive.
ConfigureArgs ==
    { <<"192.168.1.50", 631, "/ipp/print">>,
      <<"192.168.1.77", 9100, "/custom">> }

\* What discover_printers returns to the facade from the ippfind step (first
\* branch of discovery.py:36-43) and from the sweep.
AdvertisedResults ==
    { parse_ippfind_output(out) : out \in
        { <<>>,
          << <<"ipp", "://", "printerA.local", ":", "631", "/ipp/print">> >>,
          << <<"junk">>,
             <<"ipp", "://", "printerA.local", ":", "631", "/ipp/print">>,
             <<"ipp", "://", "printerB.local", ":", "8631", "/ipp/alt">> >> } }

SweepResults ==
    { CollectPrinters(<<check_ipp_service(HostIp(1), o)>>) : o \in {"open", "timeout"} }

PrintOps == {"print_text", "print_qr_code", "print_calendar_today", "print_todo_list"}
WriterOps == {"initialize", "rediscover_printer", "configure_manual_printer"}

NoReport == [status |-> "none", uri |-> ""]

\* The job names that occur: the defaults of the facade (ha_integration.py:158,
\* 169, 181, 195), of handle_notification (215) and a name given by a caller.
JobNames == {"Text", "QRCode", "Calendar", "TodoList", "Notification", "Door"}

\* The owner of a file that does not exist.
NoFile == -1

EmptyDir == [bmp |-> [n \in JobNames |-> NoFile], png |-> [n \in JobNames |-> NoFile]]

\* No response yet (status 0).
NoResponse == [status |-> 0, success |-> FALSE, job_name |-> "", image_url |-> ""]

\* A task that runs nothing.
IdleTask ==
    [op |-> "none",        \* the facade operation
     pc |-> "idle",        \* idle, the await it is suspended at, or done
     proc |-> "none",      \* the subprocess it awaits: running, or hung (never exits)
     arg |-> <<>>,         \* (ip, port, path) of the manual printer being verified
     uriArg |-> "",        \* the URI on the ipptool command line
     ret |-> FALSE,        \* the operation's return value
     report |-> NoReport,  \* get_printer_status' result
     startNone |-> FALSE,  \* no endpoint was configured when the operation began
     atCheck |-> <<>>,     \* <<self.printer>> as print_image's check read it
     verified |-> FALSE,   \* the verification probe of uriArg exited with 0
     io |-> {},            \* I/O the operation has attempted
     expected |-> "",      \* `settled` when get_status returned
     disc |-> "none",      \* discovery's answer: none yet, off, found or empty
     found |-> <<>>,       \* the list discover_printers returned
     raised |-> FALSE,     \* the operation ended in an except clause
     rc |-> -1,            \* exit code of the print job's ipptool (-1: none)
     submits |-> 0,        \* ipptool processes started for the print job
     files |-> {},         \* files of the job in the temp directory
     job_name |-> "",      \* the job name the files of the job are named by
     sent |-> NoFile,      \* whose image the BMP held when ipptool was started
     http |-> FALSE,       \* the operation was called by an HTTP handler
     response |-> NoResponse,  \* the handler's response
     note |-> <<>>,        \* <<notification>> when handle_notification runs
     calls |-> <<>>]       \* print operations handle_notification invoked

SvcIdle ==
    /\ temp_dir = EmptyDir
    /\ last_image_path = ""
    /\ printer = None
    /\ config = [auto_discover |-> TRUE, manual_ip |-> "", manual_port |-> 0, manual_path |-> ""]
    /\ task = [t \in Tasks |-> IdleTask]
    /\ settled = ""

\* A manual_ip of null in the options file: config.get('manual_ip', '') is
\* Python's None, which has no strip().
NoneValue == "None"

\* The manual_ip values a loaded configuration holds (config.py:113-114).
ManualIps == {"", "  ", "192.168.1.50", NoneValue}

\* str.strip over the addresses that occur: only the blank one carries
\* whitespace.
strip(s) == IF s = "  " THEN "" ELSE s

\* StickyPrintService.__init__ (ha_integration.py:90-114) over the loaded
\* configuration: no printer yet; manual_port and manual_path are not set.
SvcInit ==
    /\ temp_dir = EmptyDir
    /\ last_image_path = ""
    /\ printer = None
    /\ \E auto \in BOOLEAN, ip \in ManualIps :
          config = [auto_discover |-> auto, manual_ip |-> ip,
                    manual_port |-> 0, manual_path |-> ""]
    /\ task = [t \in Tasks |-> IdleTask]
    /\ settled = ""

Booted == task[0].pc = "done"

InProgress(t) == task[t].pc \notin {"idle", "done"}

\* Tasks inside a discovery/configuration operation.
Writers == { t \in Tasks : task[t].op \in WriterOps /\ InProgress(t) }

\* create_subprocess_exec('ipptool', ...) succeeded: the process runs and
\* exits, or never exits.
SpawnedStates == {"running", "hung"}

(***************************************************************************)
(* The HTTP handlers' response to a print request (src/src/main.py).       *)
(***************************************************************************)
\* main.py:143-155, 177-188, 209-221, 245-257: the facade operation has
\* returned `success` to the handler, which reads get_last_image_path() and
\* answers; `last` is self.last_image_path at that moment.  An operation
\* that no handler called has no response.
Response(tk, success, last) ==
    IF tk.http
    THEN [status |-> 200, success |-> success, job_name |-> tk.job_name,
          image_url |-> IF success /\ last # "" THEN last \o ".png" ELSE ""]
    ELSE tk.response

(***************************************************************************)
(* The boundaries that catch exceptions.                                   *)
(***************************************************************************)
\* The functions whose body is a try block with an "except Exception" clause:
\* _setup_printer (ha_integration.py:127-155, the body of initialize and
\* rediscover_printer), the print operations (159-208), handle_notification
\* (213-239), configure_manual_printer (268-294), print_image
\* (printer.py:26-54) and verify_printer (discovery.py:238-275).
GuardedOps ==
    PrintOps \cup WriterOps \cup {"handle_notification", "print_image", "verify_printer"}

\* Mutant of Catches: no function has an except clause.
CatchesNothing(o) == FALSE

Catches(o) == o \in GuardedOps

\* An exception is raised in function o of task t (record tk): the except
\* clause of o ends the operation with False, or the exception leaves o.
Raised(t, tk, o) ==
    IF Catches(o)
    THEN task' = [task EXCEPT ![t] =
                    [tk EXCEPT !.pc = "done", !.proc = "none", !.ret = FALSE,
                               !.raised = TRUE,
                               !.response = Response(tk, FALSE, last_image_path)]]
    ELSE task' = [task EXCEPT ![t] = [tk EXCEPT !.pc = "raised", !.raised = TRUE]]

(***************************************************************************)
(* _setup_printer (initialize, rediscover_printer).                        *)
(***************************************************************************)
\* ha_integration.py:151-155, 301: _setup_printer ends with the endpoint p in
\* place; rediscover_printer returns whether there is one.
SetupFinish(t, tk, p) ==
    /\ printer' = p
    /\ task' = [task EXCEPT ![t] =
                  [tk EXCEPT !.pc = "done", !.proc = "none", !.ret = (p # None)]]

\* Mutant of TriesManual: the manual address is tried whenever it is set.
TriesManualAlways(manual_ip, p) == manual_ip # ""

\* ha_integration.py:139: "if manual_ip and not self.printer.printer".
TriesManual(manual_ip, p) == manual_ip # "" /\ p = None

\* ha_integration.py:138-149 with the endpoint p in place after the discovery
\* part: a configured manual_ip is tried only when there is no endpoint;
\* verify_printer (discovery.py:236-259) returns False at once when the test
\* file or ipptool is missing, and otherwise awaits ipptool.  A manual_ip
\* that is None raises at strip() and the except clause (153-155) ends the
\* setup.
SetupManual(t, tk, p) ==
    IF config.manual_ip = NoneValue
    THEN IF Catches(tk.op)
         THEN SetupFinish(t, [tk EXCEPT !.raised = TRUE], p)
         ELSE Raised(t, tk, tk.op) /\ printer' = p
    ELSE IF TriesManual(strip(config.manual_ip), p)
    THEN LET a == <<strip(config.manual_ip), 631, "/ipp/print">>
             manual_printer == create_manual_printer(a[1], a[2], a[3])
         IN  \/ /\ \E pr \in SpawnedStates :
                      task' = [task EXCEPT ![t] =
                                 [tk EXCEPT !.pc = "verify_wait", !.proc = pr, !.arg = a,
                                            !.uriArg = manual_printer.uri,
                                            !.io = @ \cup {"ipptool"}]]
                /\ printer' = p
             \/ SetupFinish(t, tk, p)
    ELSE SetupFinish(t, tk, p)

\* ha_integration.py:125-130: _setup_printer starts; with auto_discover it
\* awaits find_sticky_note_printer.
SetupBegin(t, o) ==
    /\ task[t].pc = "idle"
    /\ LET tk == [IdleTask EXCEPT !.op = o, !.startNone = (printer = None)]
       IN  IF config.auto_discover
           THEN /\ task' = [task EXCEPT ![t] = [tk EXCEPT !.pc = "ippfind_wait"]]
                /\ UNCHANGED printer
           ELSE SetupManual(t, [tk EXCEPT !.disc = "off"], printer)
    /\ settled' = ""
    /\ UNCHANGED <<config, envVars>>

\* ha_integration.py:116-123
Initialize == SetupBegin(0, "initialize")

\* ha_integration.py:296-301
StartRediscover(t) == Booted /\ SetupBegin(t, "rediscover_printer")

\* Mutant of AfterDiscovery: the answer is set even when it is None.
AfterDiscoveryAssign(candidate, p) == candidate

\* ha_integration.py:132-136: "if printer: self.printer.set_printer(printer)";
\* with None the endpoint p stays.
AfterDiscovery(candidate, p) == IF candidate # None THEN candidate ELSE p

\* ha_integration.py:130-136: find_sticky_note_printer has returned from the
\* list `found`; the manual part follows.
SetupDiscovered(t, found) ==
    LET candidate == find_sticky_note_printer(found)
        tk == [task[t] EXCEPT !.found = found,
                              !.disc = IF candidate # None THEN "found" ELSE "empty"]
    IN  SetupManual(t, tk, AfterDiscovery(candidate, printer))

\* discovery.py:36-43: the ippfind step of the discovery ends; with printers
\* the list is returned, and with none the sweep is awaited.
IppfindAwaited(t) ==
    /\ task[t].pc = "ippfind_wait"
    /\ \E found \in AdvertisedResults :
          IF ~NeedsSweep(found)
          THEN SetupDiscovered(t, found)
          ELSE /\ task' = [task EXCEPT ![t].pc = "scan_wait"]
               /\ UNCHANGED printer
    /\ UNCHANGED <<config, settled, envVars>>

\* discovery.py:40-43: the sweep ends and its list is returned.
ScanAwaited(t) ==
    /\ task[t].pc = "scan_wait"
    /\ \E found \in SweepResults : SetupDiscovered(t, found)
    /\ UNCHANGED <<config, settled, envVars>>

(***************************************************************************)
(* configure_manual_printer and the end of a verification.                 *)
(***************************************************************************)
\* ha_integration.py:281-285: the config keys a successful configure writes.
UpdatedConfig(cfg, a) ==
    [cfg EXCEPT !.manual_ip = a[1],
                !.manual_port = IF a[2] # 631 THEN a[2] ELSE @,
                !.manual_path = IF a[3] # "/ipp/print" THEN a[3] ELSE @]

\* ha_integration.py:265-275 and discovery.py:236-259: the manual printer is
\* built and its verification begins (or fails at once).
StartConfigure(t, a) ==
    /\ Booted
    /\ task[t].pc = "idle"
    /\ LET manual_printer == create_manual_printer(a[1], a[2], a[3])
           tk == [IdleTask EXCEPT !.op = "configure_manual_printer", !.arg = a,
                                  !.startNone = (printer = None)]
       IN  \/ \E pr \in SpawnedStates :
                 task' = [task EXCEPT ![t] =
                            [tk EXCEPT !.pc = "verify_wait", !.proc = pr,
                                       !.uriArg = manual_printer.uri,
                                       !.io = @ \cup {"ipptool"}]]
           \/ task' = [task EXCEPT ![t] = [tk EXCEPT !.pc = "done", !.ret = FALSE]]
    /\ settled' = ""
    /\ UNCHANGED <<printer, config, envVars>>

\* ha_integration.py:275-290: what configure_manual_printer does with the
\* verification's answer.
ConfigureFinish(t, tk, ok) ==
    LET a == tk.arg
        manual_printer == create_manual_printer(a[1], a[2], a[3])
    IN  IF ok
        THEN /\ printer' = manual_printer
             /\ config' = UpdatedConfig(config, a)
             /\ task' = [task EXCEPT ![t] =
                           [tk EXCEPT !.pc = "done", !.proc = "none", !.ret = TRUE]]
             /\ settled' = IF Writers = {t} THEN manual_printer.uri ELSE ""
        ELSE /\ task' = [task EXCEPT ![t] =
                           [tk EXCEPT !.pc = "done", !.proc = "none", !.ret = FALSE]]
             /\ UNCHANGED <<printer, config, settled>>

\* Mutant of Accessible: every exit code counts as accessible.
AccessibleAlways(rc) == TRUE

\* discovery.py:263-268: verify_printer's answer for ipptool's exit code.
Accessible(rc) == rc = 0

\* discovery.py:261-268: ipptool exits; return code 0 means accessible.  The
\* caller goes on: _setup_printer line 145-149, configure line 275-290.
VerifyAwaited(t) ==
    /\ task[t].pc = "verify_wait"
    /\ task[t].proc = "running"
    /\ \E rc \in {0, 1} :
          LET ok == Accessible(rc)
              tk == [task[t] EXCEPT !.verified = (rc = 0)]
              a == tk.arg
          IN  IF tk.op = "configure_manual_printer"
              THEN ConfigureFinish(t, tk, ok)
              ELSE /\ SetupFinish(t, tk, IF ok THEN create_manual_printer(a[1], a[2], a[3])
                                               ELSE printer)
                   /\ UNCHANGED <<config, settled>>
    /\ UNCHANGED envVars

(***************************************************************************)
(* get_status.                                                             *)
(***************************************************************************)
\* Mutant of get_printer_status: without the "if not self.printer" answer.
get_printer_status_unguarded(p, connected) ==
    [status |-> IF connected THEN "connected" ELSE "disconnected", uri |-> p.uri]

\* printer.py:211-225: the status dictionary for endpoint p.
get_printer_status(p, connected) ==
    IF p = None
    THEN [status |-> "no_printer", uri |-> ""]
    ELSE [status |-> IF connected THEN "connected" ELSE "disconnected", uri |-> p.uri]

StatusFinish(t, tk, connected) ==
    task' = [task EXCEPT ![t] =
               [tk EXCEPT !.pc = "done", !.proc = "none", !.ret = TRUE,
                          !.report = get_printer_status(printer, connected),
                          !.expected = settled]]

\* ha_integration.py:241-244, printer.py:182-196, 211-218: without an endpoint
\* the status is returned at once; with one, test_connection starts ipptool
\* (or fails to).
StartStatus(t) ==
    /\ Booted
    /\ task[t].pc = "idle"
    /\ LET tk == [IdleTask EXCEPT !.op = "get_status", !.startNone = (printer = None)]
       IN  IF printer = None
           THEN StatusFinish(t, tk, FALSE)
           ELSE \/ \E pr \in SpawnedStates :
                      task' = [task EXCEPT ![t] =
                                 [tk EXCEPT !.pc = "status_wait", !.proc = pr,
                                            !.uriArg = printer.uri,
                                            !.io = @ \cup {"ipptool"}]]
                \/ StatusFinish(t, tk, FALSE)
    /\ UNCHANGED <<printer, config, settled, envVars>>

\* printer.py:198-205, 220-225: ipptool exits and the status is built from the
\* endpoint as it is now.
StatusAwaited(t) ==
    /\ task[t].pc = "status_wait"
    /\ task[t].proc = "running"
    /\ \E rc \in {0, 1} : StatusFinish(t, task[t], rc = 0)
    /\ UNCHANGED <<printer, config, settled, envVars>>

(***************************************************************************)
(* The print operations: StickyPrintService.print_* over print_image.      *)
(***************************************************************************)
\* Mutant of HasPrinter: print_image does not check for an endpoint.
HasPrinterUnchecked(p) == TRUE

\* printer.py:27: "if not self.printer" fails.
HasPrinter(p) == p # None

\* ha_integration.py:188, 202: print_calendar_today and print_todo_list await
\* the Home Assistant API before they render and call print_image.
FetchesFirst(o) == o \in {"print_calendar_today", "print_todo_list"}

\* printer.py:27-29, 50, 52-54: print_image returns.
PrintFinish(t, tk, success) ==
    task' = [task EXCEPT ![t] =
               [tk EXCEPT !.pc = "done", !.proc = "none", !.ret = success,
                          !.response = Response(tk, success, last_image_path)]]

\* printer.py:42-50: _send_to_printer has returned; the BMP file is unlinked
\* and the result returned.
SendReturned(t, tk, success, dir) ==
    /\ PrintFinish(t, [tk EXCEPT !.files = @ \ {"bmp"}], success)
    /\ temp_dir' = [dir EXCEPT !.bmp[tk.job_name] = NoFile]

\* printer.py:83-115: _send_to_printer after the connectivity check: without
\* print-job.test or ipptool it returns False; otherwise ipptool is started
\* with the URI of the endpoint as it is now.
SendToPrinter(t, tk, dir) ==
    \/ /\ \E pr \in SpawnedStates :
             task' = [task EXCEPT ![t] =
                        [tk EXCEPT !.pc = "print_wait", !.proc = pr,
                                   !.uriArg = printer.uri,
                                   !.sent = dir.bmp[tk.job_name],
                                   !.submits = @ + 1,
                                   !.io = @ \cup {"ipptool"}]]
       /\ temp_dir' = dir
    \/ SendReturned(t, tk, FALSE, dir)

\* printer.py:25-42, 74-81, 137-171: print_image checks for an endpoint; with
\* one it writes the BMP and the PNG and _send_to_printer begins with the
\* connectivity check, which awaits ping when ping can be started.  When
\* saving the PNG raises, the except clause (52-54) returns False.
PrintImage(t, tk) ==
    LET checked == [tk EXCEPT !.atCheck = <<printer>>]
    IN  IF ~HasPrinter(printer)
        THEN PrintFinish(t, checked, FALSE) /\ UNCHANGED fileVars
        ELSE LET bmp == [checked EXCEPT !.io = @ \cup {"bmp"}, !.files = @ \cup {"bmp"}]
                 saved == [bmp EXCEPT !.io = @ \cup {"png"}, !.files = @ \cup {"png"}]
                 temp_bmp == [temp_dir EXCEPT !.bmp[tk.job_name] = t]
                 temp_png == [temp_bmp EXCEPT !.png[tk.job_name] = t]
             IN  \/ /\ Raised(t, [bmp EXCEPT !.io = @ \cup {"png"}], "print_image")
                    /\ temp_dir' = temp_bmp
                    /\ UNCHANGED last_image_path
                 \/ /\ task' = [task EXCEPT ![t] =
                                  [saved EXCEPT !.pc = "ping_wait", !.io = @ \cup {"ping"}]]
                    /\ temp_dir' = temp_png
                    /\ last_image_path' = tk.job_name
                 \/ /\ SendToPrinter(t, saved, temp_png)
                    /\ last_image_path' = tk.job_name

\* ha_integration.py:161-162, 172-173, 189-190, 203-204: the renderer is
\* called, and print_image with its image; an exception of the renderer (the
\* content cannot be encoded or drawn) is raised in the print operation.
RenderAndPrint(t, tk) ==
    \/ Raised(t, tk, tk.op) /\ UNCHANGED fileVars
    \/ PrintImage(t, tk)

\* ha_integration.py:157-208: print operation o runs in task record tk:
\* calendar and todo await their entity's data, text and QR render and call
\* print_image.
PrintOperation(t, tk, o) ==
    IF FetchesFirst(o)
    THEN /\ task' = [task EXCEPT ![t] =
                       [tk EXCEPT !.pc = "ha_fetch", !.io = @ \cup {"ha_fetch"}]]
         /\ UNCHANGED fileVars
    ELSE RenderAndPrint(t, tk)

\* ha_integration.py:158, 169, 181, 195: the default of job_name.
DefaultJobName(o) ==
    CASE o = "print_text" -> "Text"
      [] o = "print_qr_code" -> "QRCode"
      [] o = "print_calendar_today" -> "Calendar"
      [] o = "print_todo_list" -> "TodoList"

\* A request for print operation o arrives.
StartPrint(t, o) ==
    /\ Booted
    /\ task[t].pc = "idle"
    /\ PrintOperation(t, [IdleTask EXCEPT !.op = o, !.job_name = DefaultJobName(o),
                                          !.startNone = (printer = None)], o)
    /\ UNCHANGED <<printer, config, settled, offVars>>

\* ha_integration.py:188-190, 202-204: the Home Assistant request ends (with
\* data or, on any error, with []); the image is rendered and print_image called.
HaFetched(t) ==
    /\ task[t].pc = "ha_fetch"
    /\ RenderAndPrint(t, task[t])
    /\ UNCHANGED <<printer, config, settled, offVars>>

\* printer.py:171-177: ping exits.
PingAwaited(t) ==
    /\ task[t].pc = "ping_wait"
    /\ SendToPrinter(t, task[t], temp_dir)
    /\ UNCHANGED <<printer, config, settled, last_image_path, offVars>>

\* Mutant of Printed: every exit code counts as printed.
PrintedAlways(rc) == TRUE

\* printer.py:122-128: _send_to_printer's answer for ipptool's exit code.
Printed(rc) == rc = 0

\* Mutant of Resubmits: a failed submission is tried once more.
ResubmitsOnFailure(tk, success) == ~success /\ tk.submits < 2

\* printer.py:42-50: print_image calls _send_to_printer once and returns its
\* result; there is no loop around the call.
Resubmits(tk, success) == FALSE

\* printer.py:115-128: ipptool exits; return code 0 means printed.
PrintAwaited(t) ==
    /\ task[t].pc = "print_wait"
    /\ task[t].proc = "running"
    /\ \E rc \in {0, 1} :
          LET tk == [task[t] EXCEPT !.rc = rc]
          IN  IF Resubmits(tk, Printed(rc))
              THEN SendToPrinter(t, tk, temp_dir)
              ELSE SendReturned(t, tk, Printed(rc), temp_dir)
    /\ UNCHANGED <<printer, config, settled, last_image_path, offVars>>

(***************************************************************************)
(* handle_notification.                                                    *)
(***************************************************************************)
\* The data dictionaries of the notifications that arrive, as sets of
\* (key, value) pairs; the empty one also stands for data=None ("data or {}").
NotifyData ==
    { {},
      {<<"type", "qr">>},
      {<<"type", "calendar">>},
      {<<"type", "calendar">>, <<"entity", "calendar.work">>},
      {<<"type", "todo">>},
      {<<"type", "todo">>, <<"entity", "">>},
      {<<"type", "todo">>, <<"entity", "todo.shopping">>},
      {<<"type", "banner">>} }

\* The notifications that arrive: every dictionary without a title, and a
\* title with the text and the QR notification.
Notifications ==
    { n \in [message : {"hello"}, title : {"", "Door"}, data : NotifyData] :
        n.title = "" \/ n.data \in {{}, {<<"type", "qr">>}} }

\* self.default_calendar (ha_integration.py:111)
default_calendar == "calendar.family"

\* dict.get(key, default)
DictGet(d, key, default) ==
    IF \E kv \in d : kv[1] = key
    THEN (CHOOSE kv \in d : kv[1] = key)[2]
    ELSE default

\* Python truth of a string or None.
Falsy(x) == x \in {"", NoneValue}

\* ha_integration.py:185: "calendar_entity or self.default_calendar"
entity_id(calendar_entity) ==
    IF Falsy(calendar_entity) THEN default_calendar ELSE calendar_entity

\* Mutant of handle_notification: every notification is printed as text.
handle_notification_as_text(n) ==
    <<[op |-> "print_text", arg |-> n.message,
       job_name |-> IF n.title # "" THEN n.title ELSE "Notification"]>>

\* ha_integration.py:210-235: the print operations handle_notification calls
\* for notification n, each with its first argument (for the calendar the
\* entity print_calendar_today fetches) and its job name.
handle_notification(n) ==
    LET data == n.data
        job_name == IF n.title # "" THEN n.title ELSE "Notification"
        type == DictGet(data, "type", NoneValue)
    IN  IF type = "qr"
        THEN <<[op |-> "print_qr_code", arg |-> n.message, job_name |-> job_name]>>
        ELSE IF type = "calendar"
        THEN <<[op |-> "print_calendar_today",
                arg |-> entity_id(DictGet(data, "entity", default_calendar)),
                job_name |-> job_name]>>
        ELSE IF type = "todo"
        THEN LET todo_entity == DictGet(data, "entity", NoneValue)
             IN  IF ~Falsy(todo_entity)
                 THEN <<[op |-> "print_todo_list", arg |-> todo_entity,
                         job_name |-> job_name]>>
                 ELSE <<>>
        ELSE LET full_text == IF n.title # "" THEN n.title \o "\n\n" \o n.message
                                              ELSE n.message
             IN  <<[op |-> "print_text", arg |-> full_text, job_name |-> job_name]>>

\* A notification arrives: handle_notification dispatches it to a print
\* operation, or returns False for a todo notification without entity.
StartNotify(t, n) ==
    /\ Booted
    /\ task[t].pc = "idle"
    /\ LET calls == handle_notification(n)
           tk == [IdleTask EXCEPT !.op = "handle_notification", !.note = <<n>>,
                                  !.calls = calls, !.startNone = (printer = None)]
       IN  IF calls = <<>>
           THEN /\ task' = [task EXCEPT ![t] = [tk EXCEPT !.pc = "done", !.ret = FALSE]]
                /\ UNCHANGED fileVars
           ELSE PrintOperation(t, [tk EXCEPT !.op = calls[1].op,
                                             !.job_name = calls[1].job_name],
                               calls[1].op)
    /\ UNCHANGED <<printer, config, settled, offVars>>

(***************************************************************************)
(* The HTTP print handlers (src/src/main.py:125-261).                      *)
(***************************************************************************)
\* The bodies of the print requests that arrive: the handler's kind, its
\* content field (text, data, calendar_entity, todo_entity; "" when absent)
\* and the job_name field ("" when absent).
HttpBodies == [kind : {"text", "qr", "calendar", "todo"},
               content : {"", "hello"},
               job_name : {"", "Door"}]

\* The facade operation each handler calls (main.py:140, 174, 206, 242).
FacadeOp(kind) ==
    CASE kind = "text" -> "print_text"
      [] kind = "qr" -> "print_qr_code"
      [] kind = "calendar" -> "print_calendar_today"
      [] kind = "todo" -> "print_todo_list"

\* data.get('job_name', default) of each handler (main.py:135, 169, 204, 238).
HandlerJobName(body) ==
    IF body.job_name # "" THEN body.job_name
    ELSE CASE body.kind = "text" -> "Text"
           [] body.kind = "qr" -> "QRCode"
           [] body.kind = "calendar" -> "Calendar"
           [] body.kind = "todo" -> "TodoList"

\* The handlers that answer 400 without their content field (main.py:137-138,
\* 171-172, 240-241); the calendar_entity of print_calendar is optional.
RequiresContent(kind) == kind \in {"text", "qr", "todo"}

\* The positional arguments the handler passes to the facade operation:
\* (text, font_type, job_name, font_size), (qr_data, job_name),
\* (calendar_entity, font_type, job_name, font_size) and
\* (todo_entity, font_type, job_name, font_size).
HandlerArgs(kind) == IF kind = "qr" THEN 2 ELSE 4

\* The parameters of the facade operation besides self
\* (ha_integration.py:157-158, 169, 180-182, 194-195).
Parameters(o) == IF o = "print_qr_code" THEN 2 ELSE 3

\* Python's call: more positional arguments than parameters is a TypeError.
CallRaises(kind) == HandlerArgs(kind) > Parameters(FacadeOp(kind))

\* The handler's answer without a result of the operation: 400 for missing
\* content, 500 from its except clause.
ErrorResponse(status) == [NoResponse EXCEPT !.status = status]

\* A print request arrives at its handler: the body is read, missing content
\* answered with 400, and the facade operation called; a call that raises is
\* answered with 500 by the handler's except clause.
HttpPrint(t, body) ==
    /\ Booted
    /\ task[t].pc = "idle"
    /\ LET o == FacadeOp(body.kind)
           tk == [IdleTask EXCEPT !.op = o, !.http = TRUE, !.arg = <<body>>,
                                  !.job_name = HandlerJobName(body),
                                  !.startNone = (printer = None)]
       IN  IF RequiresContent(body.kind) /\ body.content = ""
           THEN /\ task' = [task EXCEPT ![t] =
                              [tk EXCEPT !.pc = "done", !.response = ErrorResponse(400)]]
                /\ UNCHANGED fileVars
           ELSE IF CallRaises(body.kind)
           THEN /\ task' = [task EXCEPT ![t] =
                              [tk EXCEPT !.pc = "done", !.raised = TRUE,
                                         !.response = ErrorResponse(500)]]
                /\ UNCHANGED fileVars
           ELSE PrintOperation(t, tk, o)
    /\ UNCHANGED <<printer, config, settled, offVars>>

(***************************************************************************)
(* The renderer: StickyNoteRenderer (src/src/image_processor.py).  A text  *)
(* is a sequence of lines, a line a sequence of words; the width of a line *)
(* is counted in characters, every character as wide as every other.       *)
(***************************************************************************)
WordSet == {"a", "bb", "cccc", "ddddddd"}

WrapWidths == {4, 6}

RECURSIVE Flatten(_)
\* text.split(): the words of the text, whatever whitespace separated them.
Flatten(text) ==
    IF text = <<>> THEN <<>> ELSE Head(text) \o Flatten(Tail(text))

RECURSIVE getsize(_)
\* font.getsize(" ".join(line))[0]
getsize(line) ==
    IF line = <<>> THEN 0
    ELSE Len(Head(line)) + (IF Len(line) > 1 THEN 1 ELSE 0) + getsize(Tail(line))

\* The comparison with "<" in place of "<=".
FitsStrictly(test_line, max_width) == getsize(test_line) < max_width

Fits(test_line, max_width) == getsize(test_line) <= max_width

RECURSIVE WrapLoop(_, _, _, _)
WrapLoop(words, lines, current_line, max_width) ==
    IF words = <<>>
    THEN LET all == IF current_line # <<>> THEN Append(lines, current_line)
                    ELSE lines
         IN  IF all # <<>> THEN all ELSE << <<>> >>
    ELSE LET word == Head(words)
             test_line == Append(current_line, word)
         IN  IF Fits(test_line, max_width)
             THEN WrapLoop(Tail(words), lines, test_line, max_width)
             ELSE IF current_line # <<>>
                  THEN WrapLoop(Tail(words), Append(lines, current_line),
                                <<word>>, max_width)
                  ELSE WrapLoop(Tail(words), Append(lines, <<word>>),
                                <<>>, max_width)

wrap_text(text, max_width) == WrapLoop(Flatten(text), <<>>, <<>>, max_width)

\* The lines render_text draws, top to bottom.
render_text(text, max_width) == wrap_text(text, max_width)

\* Events as the calendar returns them: a title and a start time that is
\* absent, ISO-8601 or something else.
IsoStart == "2024-05-01T09:30:00Z"

Starts == {"", IsoStart, "soon"}

Titles == {<<"Standup">>, <<"Team", "lunch">>}

Events == [summary : Titles, start : Starts]

\* datetime.fromisoformat(start_time.replace('Z', '+00:00')) succeeds.
ParsesAsIso(start_time) == start_time = IsoStart

\* dt.strftime("%H:%M")
time_str(start_time) == IF start_time = IsoStart THEN "09:30" ELSE "00:00"

EventLine(event) ==
    IF event.start # "" /\ ParsesAsIso(event.start)
    THEN <<"*", time_str(event.start), "-">> \o event.summary
    ELSE <<"*">> \o event.summary

CalendarHeader == <<"Today's", "Events:">>

content_lines(events) ==
    << CalendarHeader, <<>> >> \o [i \in 1..Len(events) |-> EventLine(events[i])]

render_calendar_events(events, max_width) ==
    IF events = <<>>
    THEN render_text(<< <<"No", "events", "today">> >>, max_width)
    ELSE render_text(content_lines(events), max_width)

\* A QR payload of n characters, each character its own.
Payload(n) == [i \in 1..n |-> ToString(i)]

PayloadLengths == {1, 49, 50, 51, 52}

Min(a, b) == IF a < b THEN a ELSE b

\* data[:50]
Truncated(data) == SubSeq(data, 1, Min(QrFallbackChars, Len(data)))

\* What render_qr_code returns: the QR image, or on a failure of the encoder
\* the text "QR: " + data[:50] + "...".
render_qr_code(data, encodes) ==
    IF encodes
    THEN [image |-> "qr", lines |-> <<>>, body |-> <<>>]
    ELSE [image |-> "text", lines |-> <<>>, body |-> Truncated(data)]

NoInput ==
    [kind |-> "none", text |-> <<>>, max_width |-> 0, events |-> <<>>,
     data |-> <<>>, encodes |-> FALSE]

NoOutput == [image |-> "none", lines |-> <<>>, body |-> <<>>]

WrapInputs ==
    { [NoInput EXCEPT !.kind = "wrap", !.text = <<w>>, !.max_width = m] :
        w \in SeqsUpTo(WordSet, MaxWords), m \in WrapWidths }

CalendarInputs ==
    { [NoInput EXCEPT !.kind = "calendar", !.events = e,
                      !.max_width = LineChars] :
        e \in SeqsUpTo(Events, MaxEvents) }

QrInputs ==
    { [NoInput EXCEPT !.kind = "qr", !.data = Payload(n), !.encodes = b] :
        n \in PayloadLengths, b \in BOOLEAN }

RenderInputs == WrapInputs \cup CalendarInputs \cup QrInputs

RenderIdle ==
    /\ rpc = "off"
    /\ rin = NoInput
    /\ rout = NoOutput

WrapText ==
    /\ rpc = "input"
    /\ rin.kind = "wrap"
    /\ rpc' = "done"
    /\ rout' = [NoOutput EXCEPT !.image = "text",
                                !.lines = wrap_text(rin.text, rin.max_width)]
    /\ UNCHANGED <<rin, discVars, svcVars, fileVars>>

RenderCalendar ==
    /\ rpc = "input"
    /\ rin.kind = "calendar"
    /\ rpc' = "done"
    /\ rout' = [NoOutput EXCEPT !.image = "text",
                    !.lines = render_calendar_events(rin.events, rin.max_width)]
    /\ UNCHANGED <<rin, discVars, svcVars, fileVars>>

RenderQr ==
    /\ rpc = "input"
    /\ rin.kind = "qr"
    /\ rpc' = "done"
    /\ rout' = render_qr_code(rin.data, rin.encodes)
    /\ UNCHANGED <<rin, discVars, svcVars, fileVars>>

(***************************************************************************)
(* Specifications.                                                         *)
(***************************************************************************)
\* One discover_printers run, the service left out.
InitDiscovery == DiscInit /\ SvcIdle /\ RenderIdle

SpecDiscovery == InitDiscovery /\ [][DiscNext]_vars

\* The event loop runs every task that can run; every await of the run ends
\* (the ippfind wait by its timeout, a connection attempt by its own).
FairDiscovery == SpecDiscovery /\ WF_vars(DiscNext)

\* The steps every service specification has: start-up, configure-manual,
\* get-status and the awaits they share.
SetupStep(t) ==
    \/ IppfindAwaited(t)
    \/ ScanAwaited(t)
    \/ VerifyAwaited(t)

CommonStep(t) ==
    \/ SetupStep(t)
    \/ StatusAwaited(t)

Next ==
    \/ Initialize
    \/ \E t \in Requests : StartRediscover(t)
    \/ \E t \in Requests, a \in ConfigureArgs : StartConfigure(t, a)
    \/ \E t \in Requests : StartStatus(t)
    \/ \E t \in Tasks : CommonStep(t)

\* The service as constructed; the discovery run's own state is left out.
Init == SvcInit /\ DiscInit /\ RenderIdle

Spec == Init /\ [][Next]_vars

PrintStep(t) ==
    \/ HaFetched(t)
    \/ PingAwaited(t)
    \/ PrintAwaited(t)

PrintNext ==
    \/ Initialize
    \/ \E t \in Requests, o \in PrintOps : StartPrint(t, o)
    \/ \E t \in Requests, a \in ConfigureArgs : StartConfigure(t, a)
    \/ \E t \in Requests : StartStatus(t)
    \/ \E t \in Tasks : CommonStep(t)
    \/ \E t \in Tasks : PrintStep(t)

SpecPrint == Init /\ [][PrintNext]_vars

\* The service over notifications: start-up, then every request is a
\* notification.
NotifyNext ==
    \/ Initialize
    \/ \E t \in Requests, n \in Notifications : StartNotify(t, n)
    \/ SetupStep(0)
    \/ \E t \in Requests : PrintStep(t)

SpecNotify == Init /\ [][NotifyNext]_vars

\* The whole facade: start-up, then every kind of request.
FacadeNext ==
    \/ Initialize
    \/ \E t \in Requests : StartRediscover(t)
    \/ \E t \in Requests, a \in ConfigureArgs : StartConfigure(t, a)
    \/ \E t \in Requests : StartStatus(t)
    \/ \E t \in Requests, o \in PrintOps : StartPrint(t, o)
    \/ \E t \in Requests, n \in Notifications : StartNotify(t, n)
    \/ \E t \in Tasks : CommonStep(t)
    \/ \E t \in Tasks : PrintStep(t)

SpecFacade == Init /\ [][FacadeNext]_vars

\* The HTTP server over print requests: start-up, then every request is a
\* print request to one of the four handlers.  Only print_qr_code gets as
\* far as print_image, so no task awaits the Home Assistant API.
HttpNext ==
    \/ Initialize
    \/ \E t \in Requests, body \in HttpBodies : HttpPrint(t, body)
    \/ SetupStep(0)
    \/ \E t \in Requests : PingAwaited(t)
    \/ \E t \in Requests : PrintAwaited(t)

SpecHttp == Init /\ [][HttpNext]_vars

\* One call of a renderer function on some input; nothing else runs.
InitRender ==
    /\ DiscInit
    /\ SvcIdle
    /\ rpc = "input"
    /\ rin \in RenderInputs
    /\ rout = NoOutput

RenderNext ==
    \/ WrapText
    \/ RenderCalendar
    \/ RenderQr

SpecRender == InitRender /\ [][RenderNext]_vars

(***************************************************************************)
(* Claims about discovery (SpecDiscovery, FairDiscovery).                  *)
(***************************************************************************)
\* C1: in a run where _discover_with_ippfind returned at least one endpoint
\* the network sweep is never started, and discover_printers returns exactly
\* the list ippfind gave.
C1_AdvertisementPreferred ==
    ippPrinters # <<>> =>
        /\ ~sweepStarted
        /\ dpc \in {"after_ippfind", "done"}
        /\ dpc = "done" => printers = ippPrinters

\* C1 witness: discover_printers has returned two advertised endpoints.
C1_Witness ==
    /\ dpc = "done"
    /\ Len(ippPrinters) = 2
    /\ printers = ippPrinters
    /\ ~sweepStarted

\* The ways _discover_with_ippfind yields nothing.
EmptyPaths == {"timeout", "nonzero", "missing", "nomatch", "error"}

\* C2: once _discover_with_ippfind has returned, the ippfind process is not
\* running (after a timeout it was killed and awaited); on the timeout path and
\* on every other path that yields nothing the step returns the empty list,
\* and discover_printers then starts the network sweep.
C2_TimeoutKillsAndFallsBack ==
    /\ dpc \in {"after_ippfind", "scan", "done"} => ippProc \in {"none", "reaped"}
    /\ ippWhy \in EmptyPaths => ippPrinters = <<>>
    /\ (ippWhy \in EmptyPaths /\ dpc \in {"scan", "done"}) => sweepStarted
    /\ dpc = "ippfind_reap" => ippProc = "killed"

\* C2 witness: ippfind ran into the timeout, was killed and reaped, and the
\* sweep is running.
C2_Witness ==
    /\ ippWhy = "timeout"
    /\ ippProc = "reaped"
    /\ sweepStarted
    /\ dpc = "scan"

\* Probe tasks with a connection attempt in flight, and those inside the
\* semaphore block.
Connecting == { h \in Hosts : hpc[h] = "connecting" }
Holders == { h \in Hosts : hpc[h] \in {"connecting", "closing"} }

\* C3: at any time the number of connection attempts in flight (and of probes
\* inside the semaphore block) is at most the semaphore's capacity.
C3_SweepWithinCap ==
    /\ Cardinality(Connecting) <= ScanPermits
    /\ Cardinality(Holders) <= ScanPermits

\* C3 witness: the cap is reached while another probe waits for a permit.
C3_Witness ==
    /\ Cardinality(Connecting) = ScanPermits
    /\ \E h \in Hosts : hpc[h] = "waiting"

\* C4: every permit taken is given back on every path (the semaphore's value
\* plus the probes inside the block is the capacity), and a sweep that was
\* started always ends: every waiting probe gets to run and gather returns.
C4_SweepTerminates ==
    /\ [](sweepStarted => sem + Cardinality(Holders) = ScanPermits)
    /\ (sweepStarted ~> dpc = "done")

\* C4 witness: a sweep over more hosts than permits has ended, one host having
\* run into its connection timeout, and all permits are back.
C4_Witness ==
    /\ dpc = "done"
    /\ nHosts = NumHosts
    /\ NumHosts > ScanPermits
    /\ \E h \in Hosts : hout[h] = "timeout"
    /\ sem = ScanPermits

\* The endpoint the sweep reports for host address number h.
SweepEndpoint(h) ==
    [uri |-> "ipp://" \o HostIp(h) \o ":631/ipp/print",
     hostname |-> HostIp(h), port |-> 631, path |-> "/ipp/print"]

C6_NoEndpointNoSubmission ==
    \A t \in Tasks :
        task[t].op \in PrintOps =>
            /\ task[t].atCheck = <<None>> =>
                  /\ task[t].pc = "done"
                  /\ task[t].ret = FALSE
                  /\ task[t].io \cap {"bmp", "png", "ping", "ipptool"} = {}
            /\ "ipptool" \in task[t].io =>
                  /\ task[t].atCheck # <<>>
                  /\ task[t].atCheck # <<None>>
                  /\ task[t].uriArg # ""

\* C6 witness: a print-text request made without an endpoint has returned
\* False with no file written and no process started.
C6_Witness ==
    \E t \in Requests :
        /\ task[t].op = "print_text"
        /\ task[t].atCheck = <<None>>
        /\ task[t].pc = "done"
        /\ task[t].ret = FALSE
        /\ task[t].io = {}

\* C7 (as claimed): a print operation that begins while no endpoint is
\* configured attempts no I/O at all.
C7_NoIoWithoutEndpoint ==
    \A t \in Tasks :
        (task[t].op \in PrintOps /\ task[t].startNone) => task[t].io = {}

(***************************************************************************)
(* Claims about configuration and status (Spec).                           *)
(***************************************************************************)
\* The URI text of a manual printer with arguments a = (ip, port, path).
ManualUri(a) == "ipp://" \o a[1] \o ":" \o ToString(a[2]) \o a[3]

\* C8: configure-manual(ip, port, path) has returned True only if its ipptool
\* probe ran against ipp://<ip>:<port><path> and exited with 0; and a
\* get-status that returns while that configuration is the last
\* discovery/configuration operation reports exactly that URI as the endpoint.
C8_ManualConfigureReported ==
    \A t \in Requests :
        /\ (task[t].op = "configure_manual_printer" /\ task[t].pc = "done" /\ task[t].ret) =>
              /\ task[t].verified
              /\ task[t].uriArg = ManualUri(task[t].arg)
        /\ (task[t].op = "get_status" /\ task[t].pc = "done" /\ task[t].expected # "") =>
              /\ task[t].report.uri = task[t].expected
              /\ task[t].report.status \in {"connected", "disconnected"}
              /\ \E c \in Requests :
                    /\ task[c].op = "configure_manual_printer"
                    /\ task[c].pc = "done" /\ task[c].ret
                    /\ task[t].expected = ManualUri(task[c].arg)

\* C8 witness: configure-manual with a port and path of its own returned True
\* and a later get-status reported its URI.
C8_Witness ==
    \E c, t \in Requests :
        /\ task[c].op = "configure_manual_printer"
        /\ task[c].arg = <<"192.168.1.77", 9100, "/custom">>
        /\ task[c].pc = "done" /\ task[c].ret
        /\ task[t].op = "get_status" /\ task[t].pc = "done"
        /\ task[t].expected = "ipp://192.168.1.77:9100/custom"
        /\ task[t].report.uri = "ipp://192.168.1.77:9100/custom"

\* C9 (as claimed): at most one discovery/configuration operation
\* (initialize, rediscover, configure-manual) is in progress at any time.
C9_SingleWriter == Cardinality(Writers) <= 1

\* C10 (as claimed): a task that awaits an ipptool subprocess (verify_printer,
\* _send_to_printer, test_connection) can always go on, also when the
\* subprocess never exits: a timeout ends the wait.
C10_SubprocessWaitsBounded ==
    \A t \in Tasks :
        task[t].pc \in {"verify_wait", "print_wait", "status_wait"} =>
            ENABLED (CommonStep(t) \/ PrintStep(t))

(***************************************************************************)
(* Claims about start-up and rediscovery (Spec).                           *)
(***************************************************************************)
\* initialize() has returned and no request has been started yet.
JustBooted == Booted /\ \A r \in Requests : task[r].pc = "idle"

\* The configuration names a manual address.
ManualConfigured == config.manual_ip \notin {"", "  ", NoneValue}

\* The endpoint built from the configured manual address with the default
\* port and path.
DefaultManual ==
    IPPPrinter("ipp://" \o config.manual_ip \o ":631/ipp/print",
               config.manual_ip, 631, "/ipp/print")

\* C11: when initialize() has returned: with auto-discovery on and a
\* non-empty discovery list the endpoint is the list's first element and no
\* verification was started; otherwise, with a manual address configured, the
\* endpoint is the one built with the default port and path if its
\* verification succeeded and empty if not; otherwise the endpoint is empty.
C11_InitializationSequence ==
    JustBooted =>
        LET tk == task[0]
        IN  IF config.auto_discover /\ tk.found # <<>>
            THEN /\ printer = tk.found[1]
                 /\ "ipptool" \notin tk.io
                 /\ ~tk.verified
            ELSE IF ManualConfigured
            THEN /\ tk.verified => tk.uriArg = DefaultManual.uri
                 /\ printer = IF tk.verified THEN DefaultManual ELSE None
            ELSE /\ printer = None
                 /\ "ipptool" \notin tk.io

\* C11 witness: auto-discovery found nothing, and the configured manual
\* address was verified and adopted.
C11_Witness ==
    /\ JustBooted
    /\ config.auto_discover
    /\ task[0].disc = "empty"
    /\ task[0].verified
    /\ printer.uri = "ipp://192.168.1.50:631/ipp/print"

\* C12: initialize() is never stuck while the process it awaits can exit and
\* always ends by returning; when it has returned with nothing discovered and
\* no manual address verified (absent, refused, or the setup raised), the
\* endpoint is empty; and a get-status called with the endpoint empty returns
\* the no-printer status at once, having started no ipptool.
C12_StartupNeverFails ==
    /\ (InProgress(0) /\ task[0].proc # "hung") => ENABLED CommonStep(0)
    /\ (JustBooted /\ task[0].found = <<>> /\ ~task[0].verified) => printer = None
    /\ \A r \in Requests :
          (task[r].op = "get_status" /\ task[r].startNone) =>
              /\ task[r].pc = "done"
              /\ task[r].report = [status |-> "no_printer", uri |-> ""]
              /\ task[r].io = {}

\* C12 witness: the setup raised at the manual address after an empty
\* discovery, initialize() returned, and get-status reported no printer.
C12_Witness ==
    /\ task[0].pc = "done" /\ task[0].raised /\ task[0].disc = "empty"
    /\ printer = None
    /\ \E r \in Requests :
          /\ task[r].op = "get_status" /\ task[r].pc = "done"
          /\ task[r].report.status = "no_printer"

\* Task t is a rediscover whose discovery has returned an empty list, and
\* the step is one of its own.
EmptyRediscoverStep(t) ==
    /\ task'[t] # task[t]
    /\ task'[t].op = "rediscover_printer"
    /\ task'[t].disc = "empty"

\* C13 (as claimed): no step of a rediscover whose discovery came back empty
\* changes the current endpoint.
C13_EmptyRediscoverKeepsEndpoint ==
    [][\A t \in Requests : EmptyRediscoverStep(t) => printer' = printer]_vars

\* C13 (amended): a rediscover whose discovery came back empty leaves an
\* endpoint held at that moment as it was: it starts a verification of the
\* manual address only when no endpoint is held, and it changes the endpoint
\* only at the end of that verification, to the verified manual endpoint.
C13_EmptyRediscoverKeepsHeld ==
    [][\A t \in Requests : EmptyRediscoverStep(t) =>
          /\ (task[t].pc # "verify_wait" /\ task'[t].pc = "verify_wait") => printer = None
          /\ \/ printer' = printer
             \/ /\ task[t].pc = "verify_wait"
                /\ task'[t].verified
                /\ printer'.uri = task'[t].uriArg]_vars

\* C13 witness: a rediscover that found nothing has returned, the endpoint it
\* began with still held and no verification started.
C13_Witness ==
    \E t \in Requests :
        /\ task[t].op = "rediscover_printer" /\ task[t].pc = "done"
        /\ task[t].disc = "empty"
        /\ ~task[t].startNone
        /\ "ipptool" \notin task[t].io
        /\ printer # None

\* C14 (as claimed): a rediscover whose discovery came back empty, and which
\* verified no manual address, returns False, also when an endpoint is held.
C14_EmptyRediscoverReturnsFalse ==
    \A t \in Requests :
        ( /\ task[t].op = "rediscover_printer" /\ task[t].pc = "done"
          /\ task[t].disc = "empty"
          /\ "ipptool" \notin task[t].io ) => ~task[t].ret

\* The host part of every manual endpoint: configured or given to
\* configure-manual.  Discovered endpoints carry other host names.
ManualHosts == (ManualIps \ {"", "  ", NoneValue}) \cup { a[1] : a \in ConfigureArgs }

\* C15: the step in which configure-manual returns False changes neither the
\* current endpoint nor the configuration; and whenever the current endpoint
\* is a manual one, some operation's verification ran ipptool against exactly
\* its URI and ipptool exited with 0.
C15_UnverifiedManualDiscarded ==
    /\ [](printer.hostname \in ManualHosts =>
            \E t \in Tasks : task[t].verified /\ task[t].uriArg = printer.uri)
    /\ [][\A t \in Requests :
            ( /\ task'[t].op = "configure_manual_printer"
              /\ task[t].pc # "done" /\ task'[t].pc = "done"
              /\ ~task'[t].ret ) => (printer' = printer /\ config' = config)]_vars

\* C15 witness: a configure-manual whose verification ran and failed has
\* returned False while an endpoint is held and the configuration does not
\* name the refused address.
C15_Witness ==
    \E t \in Requests :
        /\ task[t].op = "configure_manual_printer" /\ task[t].pc = "done"
        /\ "ipptool" \in task[t].io
        /\ ~task[t].verified /\ ~task[t].ret
        /\ printer # None
        /\ printer.uri # task[t].uriArg
        /\ config.manual_ip # task[t].arg[1]

(***************************************************************************)
(* Claim about the selection (SpecDiscovery).                              *)
(***************************************************************************)
\* The endpoint of the first line of `out` that matches the ipp pattern, or
\* None.
FirstMatching(out) ==
    LET matching == { i \in DOMAIN out : MatchesIppPattern(out[i]) }
    IN  IF matching = {} THEN None
        ELSE LET i == CHOOSE j \in matching : \A k \in matching : j <= k
             IN  [uri |-> LineText(out[i]), hostname |-> out[i][3],
                  port |-> IntOf(out[i][5]), path |-> out[i][6]]

\* Hosts of the sweep whose connection succeeded.
OpenHosts == { h \in 1..nHosts : hout[h] = "open" }

\* C19: when the discovery is done the selection is the first element of the
\* list and None exactly when the list is empty; after a sweep it is the
\* endpoint of the lowest-numbered host that answered, whichever probe was
\* done first; and when ippfind's output is parsed the selection from the
\* parsed list is the endpoint of the first matching line.
C19_FirstDiscoveredSelected ==
    /\ [](dpc = "done" =>
            /\ (selected = None) <=> (printers = <<>>)
            /\ printers # <<>> => selected = printers[1]
            /\ sweepStarted =>
                  selected = IF OpenHosts = {} THEN None
                             ELSE SweepEndpoint(CHOOSE h \in OpenHosts :
                                                   \A g \in OpenHosts : h <= g)
            /\ ~sweepStarted => selected = ippPrinters[1])
    /\ [][(ippWhy = "pending" /\ ippWhy' \in {"ok", "nomatch"}) =>
            find_sticky_note_printer(ippPrinters') = FirstMatching(ippOutput)]_vars

\* C19 witness: two hosts answered, the higher-numbered one's probe was done
\* first, and the lower-numbered one's endpoint is selected.
C19_Witness ==
    /\ dpc = "done" /\ sweepStarted
    /\ \E f, g \in OpenHosts :
          /\ f < g
          /\ firstDone = g
          /\ selected = SweepEndpoint(f)

(***************************************************************************)
(* Claims about submission (SpecPrint, SpecNotify).                        *)
(***************************************************************************)
\* C16: a print operation whose print_image found an endpoint returns True
\* exactly when ipptool was started and exited with 0; with a non-zero exit
\* code, or with ipptool or print-job.test missing (nothing started), it
\* returns False.
C16_ExitCodeDecides ==
    \A t \in Requests :
        ( /\ task[t].op \in PrintOps /\ task[t].pc = "done"
          /\ task[t].atCheck # <<>> /\ task[t].atCheck # <<None>> ) =>
            /\ task[t].ret <=> (task[t].submits > 0 /\ task[t].rc = 0)
            /\ task[t].submits = 0 => task[t].rc = -1

\* C16 witness: one job's ipptool exited with 0 and it returned True,
\* another's exited with 1 and it returned False.
C16_Witness ==
    \E t, u \in Requests :
        /\ task[t].op \in PrintOps /\ task[t].pc = "done"
        /\ task[t].rc = 0 /\ task[t].ret
        /\ task[u].op \in PrintOps /\ task[u].pc = "done"
        /\ task[u].rc = 1 /\ ~task[u].ret

\* C17: no task starts ipptool for a print job more than once, and a
\* notification invokes at most one print operation.
C17_AtMostOneSubmission ==
    \A t \in Tasks : task[t].submits <= 1 /\ Len(task[t].calls) <= 1

\* C17 witness: a notification's job failed with exit code 1 and the
\* operation returned False after that one submission.
C17_Witness ==
    \E t \in Requests :
        /\ task[t].note # <<>> /\ task[t].pc = "done"
        /\ task[t].rc = 1 /\ ~task[t].ret
        /\ task[t].submits = 1

\* C18 (as claimed): when a print operation has returned, the BMP file of
\* its job does not exist.
C18_BmpRemoved ==
    \A t \in Requests :
        (task[t].op \in PrintOps /\ task[t].pc = "done") => "bmp" \notin task[t].files

(***************************************************************************)
(* Claims about notifications (SpecNotify).                                *)
(***************************************************************************)
\* The type tag of notification n as the claim reads it.
TagOf(n) ==
    IF <<"type", "qr">> \in n.data THEN "qr"
    ELSE IF <<"type", "calendar">> \in n.data THEN "calendar"
    ELSE IF <<"type", "todo">> \in n.data THEN "todo"
    ELSE "text"

\* The non-empty entity of n's payload, or `default`.
EntityOf(n, default) ==
    IF \E kv \in n.data : kv[1] = "entity" /\ kv[2] # ""
    THEN (CHOOSE kv \in n.data : kv[1] = "entity")[2]
    ELSE default

\* The print operation and first argument the dispatch of n is to invoke.
Dispatched(n) ==
    IF TagOf(n) = "qr" THEN <<"print_qr_code", n.message>>
    ELSE IF TagOf(n) = "calendar"
         THEN <<"print_calendar_today", EntityOf(n, "calendar.family")>>
    ELSE IF TagOf(n) = "todo" THEN <<"print_todo_list", EntityOf(n, "")>>
    ELSE <<"print_text",
           IF n.title = "" THEN n.message ELSE n.title \o "\n\n" \o n.message>>

\* A todo notification that names no entity.
TodoWithoutEntity(n) == TagOf(n) = "todo" /\ EntityOf(n, "") = ""

\* C20 (as claimed): every notification invokes exactly one print operation.
C20_ExactlyOnePrint ==
    \A t \in Requests : task[t].note # <<>> => Len(task[t].calls) = 1

\* C20 (amended): a todo notification without entity returns False with no
\* print operation invoked and no I/O; every other notification invokes
\* exactly one print operation, the one its type tag selects, with the
\* message, entity or text the tag calls for, and the task runs that
\* operation.
C20_DispatchByTag ==
    \A t \in Requests :
        task[t].note # <<>> =>
            LET n == task[t].note[1]
                calls == task[t].calls
            IN  IF TodoWithoutEntity(n)
                THEN /\ calls = <<>>
                     /\ task[t].pc = "done" /\ ~task[t].ret
                     /\ task[t].io = {} /\ task[t].submits = 0
                ELSE /\ Len(calls) = 1
                     /\ <<calls[1].op, calls[1].arg>> = Dispatched(n)
                     /\ task[t].op = calls[1].op

\* C20 witness: a todo notification without entity has returned False, and a
\* titled text notification was printed as title, blank line, message.
C20_Witness ==
    \E t, u \in Requests :
        /\ task[t].note # <<>> /\ TodoWithoutEntity(task[t].note[1])
        /\ task[t].pc = "done" /\ ~task[t].ret
        /\ task[u].note # <<>> /\ task[u].note[1].title = "Door"
        /\ task[u].pc = "done" /\ task[u].ret
        /\ task[u].calls[1].op = "print_text"
        /\ task[u].calls[1].arg = "Door\n\nhello"

(***************************************************************************)
(* Claim about parsing (SpecDiscovery).                                    *)
(***************************************************************************)
\* A line of the form scheme://host:port/path.
UrlForm(line) == Len(line) = 6 /\ line[2] = "://" /\ line[4] = ":"

\* The lines of `out` of that form, in order; with ippOnly those whose scheme
\* is ipp.
RECURSIVE UrlLines(_, _)
UrlLines(out, ippOnly) ==
    IF out = <<>> THEN <<>>
    ELSE IF UrlForm(Head(out)) /\ (ippOnly => Head(out)[1] = "ipp")
         THEN <<Head(out)>> \o UrlLines(Tail(out), ippOnly)
         ELSE UrlLines(Tail(out), ippOnly)

\* The parse of ippfind's output has just been made, and its result holds, in
\* order, exactly the endpoints of `lines`.
ParsedAs(lines) ==
    /\ Len(ippPrinters') = Len(lines)
    /\ \A i \in DOMAIN lines :
          ippPrinters'[i] = [uri |-> LineText(lines[i]),
                             hostname |-> lines[i][3],
                             port |-> IntOf(lines[i][5]),
                             path |-> lines[i][6]]

\* The step in which _parse_ippfind_output is applied to ippfind's output.
ParseStep == ippWhy = "pending" /\ ippWhy' \in {"ok", "nomatch"}

\* C25 (as claimed): when ippfind's output is parsed, the result holds, in
\* output order, one endpoint for every line of the form
\* scheme://host:port/path, with uri the line and hostname, port and path
\* taken from it, and nothing for any other line.
C25_EveryUrlLineParsed ==
    [][ParseStep => ParsedAs(UrlLines(ippOutput, FALSE))]_vars

\* C25 (amended): the same for the lines of the form ipp://host:port/path; a
\* line with another scheme is skipped like any other line.
C25_EveryIppLineParsed ==
    [][ParseStep => ParsedAs(UrlLines(ippOutput, TRUE))]_vars

\* C25 witness: an output of two ipp lines was parsed into their two
\* endpoints, in output order.
C25_Witness ==
    /\ ippWhy = "ok"
    /\ Len(ippPrinters) = 2
    /\ ippPrinters[1].uri = "ipp://printerB.local:8631/ipp/alt"
    /\ ippPrinters[1].port = 8631
    /\ ippPrinters[2].uri = "ipp://printerA.local:631/ipp/print"

(***************************************************************************)
(* Claim about the endpoint of a job (SpecPrint).                          *)
(***************************************************************************)
\* C28 (as claimed): the URI on the command line of a print job's ipptool is
\* the URI of the endpoint print_image's check found.
C28_SubmittedToCheckedEndpoint ==
    \A t \in Requests :
        (task[t].op \in PrintOps /\ "ipptool" \in task[t].io) =>
            task[t].uriArg = task[t].atCheck[1].uri


(***************************************************************************)
(* Claims about the renderer (SpecRender).                                 *)
(***************************************************************************)
\* The lines a calendar of these events is to show: the header, then one
\* line per event in input order.
EventLines(events) == [i \in 1..Len(events) |-> EventLine(events[i])]

\* C23: a calendar rendered from a non-empty event list is the header line
\* followed (with or without the blank line between) by one separate line per
\* event, in input order, "HH:MM - title" for a start time that parses and the
\* title alone otherwise; an empty list gives the single "no events" line.
C23_CalendarLines ==
    (rpc = "done" /\ rin.kind = "calendar") =>
        IF rin.events = <<>>
        THEN rout.lines = << <<"No", "events", "today">> >>
        ELSE \/ rout.lines = <<CalendarHeader>> \o EventLines(rin.events)
             \/ rout.lines = <<CalendarHeader, <<>> >> \o EventLines(rin.events)

\* C24: _wrap_text on any word sequence and maximum width: words that fit the
\* width as a whole give exactly one line; no line is wider than the maximum
\* unless it is a single word; and the words of the lines, in order, are the
\* input words.
C24_WrapText ==
    (rpc = "done" /\ rin.kind = "wrap") =>
        LET words == Flatten(rin.text)
            out == rout.lines
        IN  /\ getsize(words) <= rin.max_width => Len(out) = 1
            /\ \A i \in 1..Len(out) :
                   getsize(out[i]) <= rin.max_width \/ Len(out[i]) = 1
            /\ Flatten(out) = words

\* A text wrapped into several lines, one of them a word wider than the
\* maximum, another filling the width exactly.
C24_Witness ==
    /\ rpc = "done"
    /\ rin.kind = "wrap"
    /\ Len(rout.lines) > 1
    /\ \E i \in 1..Len(rout.lines) : getsize(rout.lines[i]) > rin.max_width
    /\ \E i \in 1..Len(rout.lines) :
           Len(rout.lines[i]) > 1 /\ getsize(rout.lines[i]) = rin.max_width

\* C26: when the encoder fails, render_qr_code returns the text rendering of
\* the payload, the whole payload.
C26_FallbackWholePayload ==
    (rpc = "done" /\ rin.kind = "qr" /\ ~rin.encodes) =>
        /\ rout.image = "text"
        /\ rout.body = rin.data

C29_EndpointNeverCleared == [][printer # None => printer' # None]_vars

\* C29 witness: an endpoint is held after a rediscovery that found nothing and
\* a configure-manual that failed.
C29_Witness ==
    /\ printer # None
    /\ \E t, u \in Requests :
          /\ task[t].pc = "done" /\ task[t].op = "rediscover_printer"
          /\ task[t].disc = "empty" /\ ~task[t].startNone
          /\ task[u].pc = "done" /\ task[u].op = "configure_manual_printer"
          /\ ~task[u].startNone /\ ~task[u].ret

(***************************************************************************)
(* Claims about the HTTP print handlers and the job files (SpecHttp).      *)
(***************************************************************************)
\* A print request with the content its handler requires.
ValidContent(body) == ~RequiresContent(body.kind) \/ body.content # ""

\* C21: every HTTP print request with valid content, with or without a
\* job_name, has called its facade operation and is answered with status 200,
\* the operation's success flag and the job name, not with an error.
C21_PrintAnswered ==
    \A t \in Requests :
        (task[t].pc = "done" /\ task[t].http /\ ValidContent(task[t].arg[1])) =>
            /\ task[t].response.status = 200
            /\ task[t].response.success = task[t].ret
            /\ task[t].response.job_name = HandlerJobName(task[t].arg[1])

\* C27: whenever ipptool was started for a job, the BMP file at the path on
\* its command line existed and held that job's own image.
C27_OwnBmpSubmitted ==
    \A t \in Requests :
        (task[t].op \in PrintOps /\ task[t].submits > 0) => task[t].sent = t

\* C30: the image_url of a successful print request names the PNG file of
\* that request's job, and the file holds the image the request generated.
C30_OwnPreview ==
    \A t \in Requests :
        (task[t].pc = "done" /\ task[t].http /\ task[t].response.success) =>
            /\ task[t].response.image_url = task[t].job_name \o ".png"
            /\ temp_dir.png[task[t].job_name] = t

=============================================================================
